---- MODULE Spec2Model ----
(***************************************************************************)
(* Model of frescobaldi_app/viewmanager.py: the ViewManager (a QSplitter   *)
(* holding nested QSplitters and ViewSpaces), its recency list             *)
(* _viewSpaces, and the per-ViewSpace stack of views.                      *)
(*                                                                         *)
(* A widget of the split tree is a record [id, o, ch]: a ViewSpace has     *)
(* id > 0 and no children, a QSplitter has id = 0, an orientation o and    *)
(* the ordered children ch.  The tree root is the ViewManager itself.      *)
(* Child positions are 1-based here and 0-based in the source.             *)
(* A view is identified by the document it shows (a ViewSpace never holds  *)
(* two views of one document).  Proportional sizes are Qt layout state     *)
(* that no handler reads back into the tree and are left out.              *)
(* connected[p] lists the views the slots of ViewSpace p are connected to, *)
(* unmatched records a disconnectView of a view that was not connected,    *)
(* viewChanged and created list the viewChanged emissions and the          *)
(* createView() calls of the most recent handler call.                     *)
(***************************************************************************)
EXTENDS Integers, Sequences, FiniteSets, TLC

\* ------------------------------------------------------------------ bounds
\* ViewSpaces alive at once: in the layout specification (Spec), in the
\* document-routing specification (SpecDocs), in the tree specification
\* (SpecTree) and in the open-view search specification (SpecFind)
MaxPanes == 3
MaxDocPanes == 2
MaxTreePanes == 4
MaxFindPanes == 3
\* documents shown in and removed from one ViewSpace (SpecStack)
NumStackDocs == 4

\* the open documents: one in Spec, two in SpecDocs
LayoutDocs == {"A"}
Docs == {"A", "B"}
DocNames == <<"A", "B", "C", "D", "E", "F">>
StackDocs == {DocNames[i] : i \in 1..NumStackDocs}
None == "None"
Horizontal == "Horizontal"
Vertical == "Vertical"
Orientations == {Horizontal, Vertical}

VARIABLES root, viewSpaces, views, closeEnabled, statusEnabled, err, last,
          connected, unmatched, viewChanged, created

vars == <<root, viewSpaces, views, closeEnabled, statusEnabled, err, last,
          connected, unmatched, viewChanged, created>>

\* ------------------------------------------------------- sequence helpers
Last(seq) == seq[Len(seq)]

Front(seq) == SubSeq(seq, 1, Len(seq) - 1)

\* list.remove(x) / QWidget.setParent(None): drop the element at position i
RemoveAt(seq, i) == SubSeq(seq, 1, i - 1) \o SubSeq(seq, i + 1, Len(seq))

\* list.insert / QSplitter.insertWidget: x lands at position i
InsertAt(seq, i, x) == SubSeq(seq, 1, i - 1) \o <<x>> \o SubSeq(seq, i, Len(seq))

IndexOf(seq, x) == CHOOSE i \in 1..Len(seq) : seq[i] = x /\ \A j \in 1..(i - 1) : seq[j] # x

Remove(seq, x) == IF \E i \in 1..Len(seq) : seq[i] = x THEN RemoveAt(seq, IndexOf(seq, x)) ELSE seq

Range(seq) == {seq[i] : i \in 1..Len(seq)}

\* ------------------------------------------------------------ split tree
ViewSpace(i) == [id |-> i, o |-> "-", ch |-> <<>>]

QSplitter(o, ch) == [id |-> 0, o |-> o, ch |-> ch]

isQSplitter(n) == n.id = 0

count(n) == Len(n.ch)

RECURSIVE Leaves(_)
\* the ViewSpaces below a widget, left to right
Leaves(n) ==
    IF ~isQSplitter(n) THEN <<n.id>>
    ELSE IF n.ch = <<>> THEN <<>>
    ELSE Leaves(n.ch[1]) \o Leaves([n EXCEPT !.ch = Tail(n.ch)])

RECURSIVE PathOf(_, _)
\* the child positions leading from widget n down to ViewSpace p
PathOf(n, p) ==
    LET i == CHOOSE k \in 1..Len(n.ch) : p \in Range(Leaves(n.ch[k]))
    IN  IF isQSplitter(n.ch[i]) THEN <<i>> \o PathOf(n.ch[i], p) ELSE <<i>>

RECURSIVE NodeAt(_, _)
NodeAt(n, path) == IF path = <<>> THEN n ELSE NodeAt(n.ch[Head(path)], Tail(path))

RECURSIVE ReplaceAt(_, _, _)
ReplaceAt(n, path, m) ==
    IF path = <<>> THEN m
    ELSE [n EXCEPT !.ch[Head(path)] = ReplaceAt(n.ch[Head(path)], Tail(path), m)]

\* viewspace.parentWidget(), as a path from the root
parentWidget(r, p) == Front(PathOf(r, p))

\* --------------------------------------------------------------- ViewSpace
\* ViewSpace.document(): the document of the last view, None without views
document(vs) == IF vs # <<>> THEN Last(vs) ELSE None

\* ViewSpace.activeView(): the last view, None without views
activeView(vs) == IF vs # <<>> THEN Last(vs) ELSE None

\* showDocument that always creates a view
showDocumentDup(vs, doc) == IF doc = document(vs) THEN vs ELSE Append(vs, doc)

\* ViewSpace.showDocument(doc)
showDocument(vs, doc) ==
    IF doc = document(vs) THEN vs
    ELSE Append(IF doc \in Range(Front(vs)) THEN Remove(vs, doc) ELSE vs, doc)

\* removeDocument that removes the last view when some view shows doc
removeDocumentLast(vs, doc) == IF doc \in Range(vs) THEN Front(vs) ELSE vs

\* ViewSpace.removeDocument(doc)
removeDocument(vs, doc) == Remove(vs, doc)

\* ViewSpace.clear()
clear(vs) == <<>>

\* ViewSpace.connectView(view), on the list c of connected views
connectView(c, view) == Append(c, view)

\* ViewSpace.disconnectView(view)
disconnectView(c, view) == Remove(c, view)

\* bindShow that leaves the former active view connected
bindShowKeep(c, vs, doc) == IF doc = document(vs) THEN c ELSE connectView(c, doc)

\* showDocument: the connected views afterwards
bindShow(c, vs, doc) ==
    IF doc = document(vs) THEN c
    ELSE connectView(IF vs # <<>> THEN disconnectView(c, activeView(vs)) ELSE c, doc)

\* showDocument: it disconnects a view that is not connected
missShow(c, vs, doc) ==
    doc # document(vs) /\ vs # <<>> /\ activeView(vs) \notin Range(c)

\* showDocument: it calls doc.createView()
createsView(vs, doc) == doc # document(vs) /\ doc \notin Range(Front(vs))

\* removeDocument: the connected views afterwards
bindRemove(c, vs, doc) ==
    IF doc = document(vs)
    THEN LET c1 == disconnectView(c, activeView(vs))
         IN  IF removeDocument(vs, doc) # <<>>
             THEN connectView(c1, Last(removeDocument(vs, doc)))
             ELSE c1
    ELSE c

\* removeDocument: it disconnects a view that is not connected
missRemove(c, vs, doc) == doc = document(vs) /\ activeView(vs) \notin Range(c)

\* clear: the connected views afterwards
bindClear(c, vs) == IF vs # <<>> THEN disconnectView(c, Last(vs)) ELSE c

\* clear: it disconnects a view that is not connected
missClear(c, vs) == vs # <<>> /\ Last(vs) \notin Range(c)

\* ------------------------------------------------------------- ViewManager
\* The manager's state as a handler finds it, as one record so that handlers
\* compose: nothing emitted and no view created yet in this call.
St == [root |-> root, viewSpaces |-> viewSpaces, views |-> views,
       closeEnabled |-> closeEnabled, statusEnabled |-> statusEnabled, err |-> err,
       connected |-> connected, unmatched |-> unmatched,
       viewChanged |-> <<>>, created |-> {}]

Panes(s) == Range(Leaves(s.root))

\* ViewManager.activeViewSpace()
activeViewSpace(s) == Last(s.viewSpaces)

\* ViewManager.canCloseViewSpace()
canCloseViewSpace(s) == count(s.root) > 1

\* setActiveViewSpace that appends space and leaves its old entry listed
setActiveViewSpaceDup(s, space) ==
    IF space = Last(s.viewSpaces) THEN s
    ELSE [s EXCEPT !.viewSpaces = Append(@, space),
                   !.statusEnabled = (@ \ {Last(s.viewSpaces)}) \cup {space},
                   !.viewChanged = Append(@, <<space, activeView(s.views[space])>>)]

\* setActiveViewSpace that returns without moving space
setActiveViewSpaceStay(s, space) == s

\* ViewManager.setActiveViewSpace(space)
setActiveViewSpace(s, space) ==
    LET prev == Last(s.viewSpaces)
    IN  IF space = prev THEN s
        ELSE [s EXCEPT !.viewSpaces = Append(Remove(@, space), space),
                       !.statusEnabled = (@ \ {prev}) \cup {space},
                       !.viewChanged = Append(@, <<space, activeView(s.views[space])>>)]

\* view.setFocus() on the active view of `space`: the view emits focusIn, which
\* connectView bound to ViewSpace.setActiveViewSpace of that space.
setFocus(s, space) == setActiveViewSpace(s, space)

\* the ViewSpace object created by ViewSpace(self): the smallest unused identity
newViewSpace(s) == CHOOSE i \in 1..(Cardinality(Panes(s)) + 1) : i \notin Panes(s)

\* the three placements of splitViewSpace, by the test that selects them
splitCase(s, viewspace, orientation) ==
    LET splitter == NodeAt(s.root, parentWidget(s.root, viewspace))
    IN  IF count(splitter) = 1 THEN "single"
        ELSE IF splitter.o = orientation THEN "sibling"
        ELSE "nested"

\* splitPlace with the orientation test inverted
splitPlaceFlipped(splitter, index, viewspace, newspace, orientation) ==
    IF count(splitter) = 1
    THEN QSplitter(orientation, Append(splitter.ch, ViewSpace(newspace)))
    ELSE IF splitter.o # orientation
    THEN [splitter EXCEPT !.ch = InsertAt(@, index + 1, ViewSpace(newspace))]
    ELSE LET newsplitter ==
                 QSplitter(orientation, <<ViewSpace(viewspace), ViewSpace(newspace)>>)
         IN  [splitter EXCEPT !.ch = RemoveAt(InsertAt(@, index, newsplitter), index + 1)]

\* splitPlace that adds newspace to the new splitter before viewspace
splitPlaceSwapped(splitter, index, viewspace, newspace, orientation) ==
    IF count(splitter) = 1
    THEN QSplitter(orientation, Append(splitter.ch, ViewSpace(newspace)))
    ELSE IF splitter.o = orientation
    THEN [splitter EXCEPT !.ch = InsertAt(@, index + 1, ViewSpace(newspace))]
    ELSE LET newsplitter ==
                 QSplitter(orientation, <<ViewSpace(newspace), ViewSpace(viewspace)>>)
         IN  [splitter EXCEPT !.ch = RemoveAt(InsertAt(@, index, newsplitter), index + 1)]

\* splitViewSpace, the placement of newspace: the parent splitter afterwards, where
\* viewspace is child number index of splitter
splitPlace(splitter, index, viewspace, newspace, orientation) ==
    IF count(splitter) = 1
    THEN QSplitter(orientation, Append(splitter.ch, ViewSpace(newspace)))
    ELSE IF splitter.o = orientation
    THEN [splitter EXCEPT !.ch = InsertAt(@, index + 1, ViewSpace(newspace))]
    ELSE LET newsplitter ==
                 QSplitter(orientation, <<ViewSpace(viewspace), ViewSpace(newspace)>>)
         IN  [splitter EXCEPT !.ch = RemoveAt(InsertAt(@, index, newsplitter), index + 1)]

\* registration just below the active ViewSpace
registerBelowActive(spaces, newspace) == InsertAt(spaces, Len(spaces), newspace)

\* splitViewSpace: self._viewSpaces.insert(0, newspace)
registerViewSpace(spaces, newspace) == <<newspace>> \o spaces

\* ViewManager.splitViewSpace(viewspace, orientation)
splitViewSpace(s, viewspace, orientation) ==
    LET active == viewspace = activeViewSpace(s)
        path == PathOf(s.root, viewspace)
        splitter == NodeAt(s.root, Front(path))
        newspace == newViewSpace(s)
        placed == splitPlace(splitter, Last(path), viewspace, newspace, orientation)
        s1 == [s EXCEPT !.root = ReplaceAt(@, Front(path), placed),
                        !.viewSpaces = registerViewSpace(@, newspace),
                        !.views[newspace] = showDocument(<<>>, document(s.views[viewspace])),
                        !.connected[newspace] =
                            bindShow(<<>>, <<>>, document(s.views[viewspace])),
                        !.created = IF createsView(<<>>, document(s.views[viewspace]))
                                    THEN @ \cup {<<newspace, document(s.views[viewspace])>>}
                                    ELSE @,
                        !.err = "none"]
    IN  IF active /\ s1.views[newspace] = <<>>
        THEN \* newspace.activeView() is None: None.setFocus() raises
             [s1 EXCEPT !.err = "AttributeError"]
        ELSE LET s2 == IF active THEN setFocus(s1, newspace) ELSE s1
             IN  [s2 EXCEPT !.closeEnabled = canCloseViewSpace(s2)]

\* insertWidgets that takes the children of other first to last
insertWidgetsReversed(ch, index, other) ==
    SubSeq(ch, 1, index - 1)
        \o [k \in 1..Len(other) |-> other[Len(other) + 1 - k]]
        \o SubSeq(ch, index, Len(ch))

RECURSIVE insertWidgets(_, _, _)
\* while other.count(): parent.insertWidget(index, other.widget(other.count()-1))
insertWidgets(ch, index, other) ==
    IF other = <<>> THEN ch
    ELSE insertWidgets(InsertAt(ch, index, Last(other)), index, Front(other))

\* closeViewSpace, splitter.count() > 2: the splitter without its child number i
closeRemove(splitter, i) == [splitter EXCEPT !.ch = RemoveAt(@, i)]

\* closeInRoot that keeps the manager's own orientation
closeInRootKeepOrientation(manager, i) ==
    LET other == manager.ch[3 - i]
        left == RemoveAt(manager.ch, i)
    IN  IF isQSplitter(other)
        THEN QSplitter(manager.o, RemoveAt(insertWidgets(left, 1, other.ch), count(other) + 1))
        ELSE [manager EXCEPT !.ch = left]

\* closeViewSpace, splitter is self with two children: the manager afterwards
closeInRoot(manager, i) ==
    LET other == manager.ch[3 - i]
        left == RemoveAt(manager.ch, i)
    IN  IF isQSplitter(other)
        THEN QSplitter(other.o, RemoveAt(insertWidgets(left, 1, other.ch), count(other) + 1))
        ELSE [manager EXCEPT !.ch = left]

\* closeInSplitter that takes viewspace out and leaves the sub-splitter in place
closeInSplitterKeep(parent, index, splitter, i) ==
    [parent EXCEPT !.ch[index] = closeRemove(splitter, i)]

\* closeInSplitter that hands a ViewSpace sibling over with addWidget
closeInSplitterAppend(parent, index, splitter, i) ==
    LET other == splitter.ch[3 - i]
    IN  IF isQSplitter(other)
        THEN [parent EXCEPT !.ch =
                 RemoveAt(insertWidgets(@, index, other.ch), index + count(other))]
        ELSE [parent EXCEPT !.ch = RemoveAt(Append(@, other), index)]

\* closeViewSpace, a sub-splitter with two children, itself child number index of
\* parent: the parent afterwards
closeInSplitter(parent, index, splitter, i) ==
    LET other == splitter.ch[3 - i]
    IN  IF isQSplitter(other)
        THEN [parent EXCEPT !.ch =
                 RemoveAt(insertWidgets(@, index, other.ch), index + count(other))]
        ELSE [parent EXCEPT !.ch = RemoveAt(InsertAt(@, index, other), index + 1)]

\* closeViewSpace, the widget tree after the call
closeTree(r, viewspace) ==
    LET path == PathOf(r, viewspace)
        ppath == Front(path)
        splitter == NodeAt(r, ppath)
        i == Last(path)
    IN  IF count(splitter) > 2 THEN ReplaceAt(r, ppath, closeRemove(splitter, i))
        ELSE IF ppath = <<>> THEN closeInRoot(r, i)
        ELSE ReplaceAt(r, Front(ppath),
                       closeInSplitter(NodeAt(r, Front(ppath)), Last(ppath), splitter, i))

\* closeForget that leaves the closed ViewSpace listed
closeForgetNothing(spaces, viewspace) == spaces

\* closeViewSpace: self._viewSpaces.remove(viewspace)
closeForget(spaces, viewspace) == Remove(spaces, viewspace)

\* the branch of closeViewSpace a call takes
closeCase(s, viewspace) ==
    LET path == PathOf(s.root, viewspace)
        splitter == NodeAt(s.root, Front(path))
        other == splitter.ch[3 - Last(path)]
    IN  IF viewspace = activeViewSpace(s) /\ Len(s.viewSpaces) < 2 THEN "raise"
        ELSE IF count(splitter) > 2 THEN "remove"
        ELSE IF Front(path) = <<>>
        THEN IF count(s.root) < 2 THEN "return"
             ELSE IF isQSplitter(other) THEN "rootSplitter" ELSE "rootViewSpace"
        ELSE IF isQSplitter(other) THEN "mergeSplitter" ELSE "mergeViewSpace"

\* closeViewSpace, lines 331-374: viewspace is cleared and taken out of the tree
closeDetach(s, viewspace) ==
    [s EXCEPT !.root = closeTree(@, viewspace),
              !.views[viewspace] = clear(@),
              !.connected[viewspace] = bindClear(@, s.views[viewspace]),
              !.unmatched = @ \/ missClear(s.connected[viewspace], s.views[viewspace]),
              !.statusEnabled = @ \ {viewspace}]

\* closeViewSpace, line 375
closeUnlist(s, viewspace) == [s EXCEPT !.viewSpaces = closeForget(@, viewspace)]

\* closeViewSpace, line 376
closeEnable(s) == [s EXCEPT !.closeEnabled = canCloseViewSpace(s)]

\* the manager after line 329 (activated), after the detaching branch (detached)
\* and after lines 375 and 376
closeTrace(activated, detached, unlisted) ==
    <<activated, detached, unlisted, closeEnable(unlisted)>>

\* closeSteps that detaches viewspace before it activates another ViewSpace
closeStepsLate(s, viewspace) ==
    IF count(s.root) < 2 THEN <<s>>
    ELSE IF viewspace = activeViewSpace(s)
    THEN closeTrace(closeDetach(s, viewspace),
                    setActiveViewSpace(closeDetach(s, viewspace),
                                       s.viewSpaces[Len(s.viewSpaces) - 1]),
                    closeUnlist(setActiveViewSpace(closeDetach(s, viewspace),
                                                   s.viewSpaces[Len(s.viewSpaces) - 1]),
                                viewspace))
    ELSE closeTrace(s, closeDetach(s, viewspace),
                    closeUnlist(closeDetach(s, viewspace), viewspace))

\* closeViewSpace where self._viewSpaces[-2] exists or is not needed, step by
\* step: the manager after line 329 alone when line 337 returns, else after line
\* 329, after the branch that detaches viewspace, after line 375 and after line 376
closeSteps(s, viewspace) ==
    LET s1 == IF viewspace = activeViewSpace(s)
              THEN setActiveViewSpace(s, s.viewSpaces[Len(s.viewSpaces) - 1])
              ELSE s
    IN  IF parentWidget(s.root, viewspace) = <<>> /\ count(s.root) < 2
        THEN <<s1>>
        ELSE closeTrace(s1, closeDetach(s1, viewspace),
                        closeUnlist(closeDetach(s1, viewspace), viewspace))

\* ViewManager.closeViewSpace(viewspace)
closeViewSpace(s, viewspace) ==
    IF viewspace = activeViewSpace(s) /\ Len(s.viewSpaces) < 2
    THEN \* self._viewSpaces[-2] raises
         [s EXCEPT !.err = "IndexError"]
    ELSE Last(closeSteps([s EXCEPT !.err = "none"], viewspace))

\* fillEmpty that shows doc in no space
fillEmptySkip(s, doc) == s

\* for space in self._viewSpaces[:-1]: if not space.document(): space.showDocument(doc)
fillEmpty(s, doc) ==
    LET empty == {p \in Range(Front(s.viewSpaces)) : document(s.views[p]) = None}
    IN  [s EXCEPT !.views = [p \in DOMAIN @ |->
                      IF p \in empty THEN showDocument(@[p], doc) ELSE @[p]],
                  !.connected = [p \in DOMAIN @ |->
                      IF p \in empty THEN bindShow(@[p], s.views[p], doc) ELSE @[p]],
                  !.unmatched = @ \/ \E p \in empty :
                                        missShow(s.connected[p], s.views[p], doc),
                  !.created = @ \cup {<<p, doc>> : p \in
                                        {q \in empty : createsView(s.views[q], doc)}}]

\* findOpen that searches self._viewSpaces[:-1] front to back
findOpenOldest(s, doc) ==
    LET hits == {i \in 1..(Len(s.viewSpaces) - 1) : document(s.views[s.viewSpaces[i]]) = doc}
    IN  IF hits = {} THEN 0
        ELSE s.viewSpaces[CHOOSE i \in hits : \A j \in hits : j >= i]

\* the first space of self._viewSpaces[-2::-1] whose document is doc; 0 if none
findOpen(s, doc) ==
    LET hits == {i \in 1..(Len(s.viewSpaces) - 1) : document(s.views[s.viewSpaces[i]]) = doc}
    IN  IF hits = {} THEN 0
        ELSE s.viewSpaces[CHOOSE i \in hits : \A j \in hits : j <= i]

\* ViewManager.focusActiveView()
focusActiveView(s) == setFocus(s, activeViewSpace(s))

\* the branch of setCurrentDocument a call takes
currentCase(s, doc, findOpenView) ==
    IF doc = document(s.views[activeViewSpace(s)]) THEN "shown"
    ELSE IF findOpenView /\ findOpen(s, doc) # 0 THEN "found"
    ELSE "show"

\* ViewManager.setCurrentDocument(doc, findOpenView)
setCurrentDocument(s, doc, findOpenView) ==
    LET space == findOpen(s, doc)
        s1 == IF doc # document(s.views[activeViewSpace(s)])
              THEN IF findOpenView /\ space # 0
                   THEN setActiveViewSpace(s, space)
                   ELSE LET a == activeViewSpace(s)
                        IN  [s EXCEPT !.views[a] = showDocument(@, doc),
                                      !.connected[a] = bindShow(@, s.views[a], doc),
                                      !.unmatched =
                                          @ \/ missShow(s.connected[a], s.views[a], doc),
                                      !.created = IF createsView(s.views[a], doc)
                                                  THEN @ \cup {<<a, doc>>} ELSE @]
              ELSE s
    IN  [focusActiveView(fillEmpty(s1, doc)) EXCEPT !.err = "none"]

\* slotDocumentClosed that fills the empty spaces when doc was the active document
slotDocumentClosedFlipped(s, doc) ==
    LET activeDocument == document(s.views[activeViewSpace(s)])
        s1 == [s EXCEPT !.views = [p \in DOMAIN @ |->
                  IF p \in Range(s.viewSpaces) THEN removeDocument(@[p], doc) ELSE @[p]]]
        s2 == IF doc = activeDocument
              THEN fillEmpty(s1, document(s1.views[activeViewSpace(s1)])) ELSE s1
    IN  [s2 EXCEPT !.err = "none"]

\* ViewManager.slotDocumentClosed(doc)
slotDocumentClosed(s, doc) ==
    LET activeDocument == document(s.views[activeViewSpace(s)])
        s1 == [s EXCEPT !.views = [p \in DOMAIN @ |->
                  IF p \in Range(s.viewSpaces) THEN removeDocument(@[p], doc) ELSE @[p]],
                        !.connected = [p \in DOMAIN @ |->
                  IF p \in Range(s.viewSpaces) THEN bindRemove(@[p], s.views[p], doc)
                  ELSE @[p]],
                        !.unmatched = @ \/ \E p \in Range(s.viewSpaces) :
                                              missRemove(s.connected[p], s.views[p], doc)]
        s2 == IF doc # activeDocument THEN fillEmpty(s1, activeDocument) ELSE s1
    IN  [s2 EXCEPT !.err = "none"]

\* the identities ViewSpaces get: the smallest unused one at each split, so none
\* beyond the largest bound on the live ViewSpaces
ViewSpaceIds ==
    1..(CHOOSE n \in {MaxPanes, MaxDocPanes, MaxTreePanes, MaxFindPanes} :
            \A m \in {MaxPanes, MaxDocPanes, MaxTreePanes, MaxFindPanes} : m <= n)

\* ------------------------------------------------------------ transitions
\* `last` records the most recent call: the handler, its arguments, the branch it
\* took, the ViewSpace a split created (kept over a close that directly follows
\* it), and how far the calls so far follow the three-call scenario
\*   split(P0, Vertical); split(P1, Horizontal); close(P1)
\* begun with a single ViewSpace P0 showing document "A".
NoCall == [op |-> "init", pane |-> 0, orientation |-> "-", doc |-> None,
           findOpenView |-> FALSE, case |-> "-", new |-> 0, scenario |-> 0]

Apply(s, call) ==
    /\ root' = s.root
    /\ viewSpaces' = s.viewSpaces
    /\ views' = s.views
    /\ closeEnabled' = s.closeEnabled
    /\ statusEnabled' = s.statusEnabled
    /\ err' = s.err
    /\ connected' = s.connected
    /\ unmatched' = s.unmatched
    /\ viewChanged' = s.viewChanged
    /\ created' = s.created
    /\ last' = call

\* ViewManager.__init__ and createActions
Init ==
    /\ root = QSplitter(Horizontal, <<ViewSpace(1)>>)
    /\ viewSpaces = <<1>>
    /\ views = [p \in ViewSpaceIds |-> <<>>]
    /\ closeEnabled = FALSE
    /\ statusEnabled = {1}
    /\ err = "none"
    /\ connected = [p \in ViewSpaceIds |-> <<>>]
    /\ unmatched = FALSE
    /\ viewChanged = <<>>
    /\ created = {}
    /\ last = NoCall

SplitViewSpace(maxPanes) ==
    \E viewspace \in Panes(St), orientation \in Orientations :
        /\ Cardinality(Panes(St)) < maxPanes
        /\ Apply(splitViewSpace(St, viewspace, orientation),
                 [NoCall EXCEPT !.op = "splitViewSpace", !.pane = viewspace,
                                !.orientation = orientation,
                                !.case = splitCase(St, viewspace, orientation),
                                !.new = newViewSpace(St),
                                !.scenario =
                                    IF /\ Len(viewSpaces) = 1
                                       /\ document(views[viewspace]) = "A"
                                       /\ orientation = Vertical
                                    THEN 1
                                    ELSE IF /\ last.scenario = 1
                                            /\ viewspace = last.new
                                            /\ orientation = Horizontal
                                    THEN 2
                                    ELSE 0])

CloseViewSpace ==
    \E viewspace \in Panes(St) :
        Apply(closeViewSpace(St, viewspace),
              [NoCall EXCEPT !.op = "closeViewSpace", !.pane = viewspace,
                             !.case = closeCase(St, viewspace),
                             !.new = IF last.op = "splitViewSpace" THEN last.new ELSE 0,
                             !.scenario = IF last.scenario = 2 /\ viewspace = last.pane
                                          THEN 3 ELSE 0])

SetCurrentDocument(docs) ==
    \E doc \in docs, findOpenView \in BOOLEAN :
        Apply(setCurrentDocument(St, doc, findOpenView),
              [NoCall EXCEPT !.op = "setCurrentDocument", !.doc = doc,
                             !.findOpenView = findOpenView,
                             !.case = currentCase(St, doc, findOpenView)])

SlotDocumentClosed(docs) ==
    \E doc \in docs :
        Apply(slotDocumentClosed(St, doc),
              [NoCall EXCEPT !.op = "slotDocumentClosed", !.doc = doc])

\* a view receives the keyboard focus: ViewSpace.setActiveViewSpace
FocusIn ==
    \E space \in Panes(St) :
        /\ views[space] # <<>>
        /\ Apply([setActiveViewSpace(St, space) EXCEPT !.err = "none"],
                 [NoCall EXCEPT !.op = "focusIn", !.pane = space])

\* Spec: one open document, up to MaxPanes ViewSpaces
Next ==
    \/ SplitViewSpace(MaxPanes)
    \/ CloseViewSpace
    \/ SetCurrentDocument(LayoutDocs)
    \/ SlotDocumentClosed(LayoutDocs)
    \/ FocusIn

Spec == Init /\ [][Next]_vars

\* SpecDocs: two open documents, up to MaxDocPanes ViewSpaces
NextDocs ==
    \/ SplitViewSpace(MaxDocPanes)
    \/ CloseViewSpace
    \/ SetCurrentDocument(Docs)
    \/ SlotDocumentClosed(Docs)
    \/ FocusIn

SpecDocs == Init /\ [][NextDocs]_vars

\* space.showDocument(doc) for a document, on the manager's state
ShowDocument(docs) ==
    \E space \in Panes(St), doc \in docs :
        Apply([St EXCEPT !.views[space] = showDocument(@, doc),
                         !.connected[space] = bindShow(@, views[space], doc),
                         !.unmatched = @ \/ missShow(connected[space], views[space], doc),
                         !.created = IF createsView(views[space], doc)
                                     THEN {<<space, doc>>} ELSE {}],
              [NoCall EXCEPT !.op = "showDocument", !.pane = space, !.doc = doc,
                             !.case = IF doc = document(views[space]) THEN "shown"
                                      ELSE IF createsView(views[space], doc)
                                      THEN "create" ELSE "reuse"])

\* space.removeDocument(doc), on the manager's state
RemoveDocument(docs) ==
    \E space \in Panes(St), doc \in docs :
        Apply([St EXCEPT !.views[space] = removeDocument(@, doc),
                         !.connected[space] = bindRemove(@, views[space], doc),
                         !.unmatched = @ \/ missRemove(connected[space], views[space], doc)],
              [NoCall EXCEPT !.op = "removeDocument", !.pane = space, !.doc = doc,
                             !.case = IF doc \notin Range(views[space]) THEN "absent"
                                      ELSE IF doc = document(views[space])
                                      THEN "active" ELSE "inactive"])

\* SpecStack: the view stack of the first ViewSpace, NumStackDocs documents
NextStack ==
    \/ ShowDocument(StackDocs)
    \/ RemoveDocument(StackDocs)

SpecStack == Init /\ [][NextStack]_vars

\* SpecFind: two documents routed among up to MaxFindPanes ViewSpaces
NextFind ==
    \/ SplitViewSpace(MaxFindPanes)
    \/ CloseViewSpace
    \/ SetCurrentDocument(Docs)
    \/ FocusIn

SpecFind == Init /\ [][NextFind]_vars

\* SpecTree: splits and closes of up to MaxTreePanes ViewSpaces, one document
NextTree ==
    \/ SplitViewSpace(MaxTreePanes)
    \/ CloseViewSpace
    \/ SetCurrentDocument(LayoutDocs)

SpecTree == Init /\ [][NextTree]_vars

\* ------------------------------------------------------------------ claims
PaneCount == Cardinality(Panes(St))

RECURSIVE SubSplittersFull(_)
\* every QSplitter strictly below n has at least two children
SubSplittersFull(n) ==
    \A i \in 1..Len(n.ch) :
        isQSplitter(n.ch[i]) => count(n.ch[i]) >= 2 /\ SubSplittersFull(n.ch[i])

\* C1: after every splitViewSpace and closeViewSpace call, each QSplitter below the
\* manager has at least two children and the manager itself has at least one.
C1_SplitterArity == count(root) >= 1 /\ SubSplittersFull(root)

\* a close has just merged a two-child sub-splitter away
C1_Witness ==
    /\ last.op = "closeViewSpace"
    /\ last.case = "mergeViewSpace"
    /\ count(root) = 2

\* C2: exactly one ViewSpace is active: _viewSpaces is not empty, its last element
\* is in the widget tree and is the one with the enabled status bar, and when it
\* holds a view its activeView() is defined and is the last view of its stack.
C2_OneActive ==
    /\ Len(viewSpaces) >= 1
    /\ activeViewSpace(St) \in Panes(St)
    /\ statusEnabled = {activeViewSpace(St)}
    /\ views[activeViewSpace(St)] # <<>> =>
           /\ activeView(views[activeViewSpace(St)]) # None
           /\ activeView(views[activeViewSpace(St)]) =
                  views[activeViewSpace(St)][Len(views[activeViewSpace(St)])]

\* a close that completed with two ViewSpaces left, the active one showing a view
C2_Witness ==
    /\ last.op = "closeViewSpace"
    /\ err = "none"
    /\ PaneCount = 2
    /\ views[activeViewSpace(St)] # <<>>

\* C3: closeViewSpace called with a single ViewSpace completes without raising and
\* leaves the tree, _viewSpaces, the view stacks and the close command unchanged.
C3_CloseOnlyPaneSilent ==
    [][(last'.op = "closeViewSpace" /\ Len(viewSpaces) = 1) =>
          /\ err' = "none"
          /\ root' = root
          /\ viewSpaces' = viewSpaces
          /\ views' = views
          /\ closeEnabled' = closeEnabled]_vars

\* C4: the close command is enabled, and canCloseViewSpace() is true, exactly when
\* the manager holds at least two ViewSpaces.
C4_CloseEnabledIffTwoPanes ==
    /\ closeEnabled <=> PaneCount >= 2
    /\ canCloseViewSpace(St) <=> PaneCount >= 2

RECURSIVE Shape(_)
\* the tree with the orientation of a single-child splitter left open
Shape(n) ==
    IF ~isQSplitter(n) THEN n
    ELSE [id |-> 0, o |-> IF count(n) >= 2 THEN n.o ELSE "-",
          ch |-> [i \in 1..Len(n.ch) |-> Shape(n.ch[i])]]

\* C5: from every state, splitViewSpace(p, o) followed by closeViewSpace of the new
\* ViewSpace gives back the tree (nodes, children, order, nesting), the recency
\* list with its active ViewSpace, and the document p shows.
C5_RoundTrip ==
    \A p \in Panes(St), o \in Orientations :
        PaneCount < MaxPanes =>
            LET s2 == closeViewSpace(splitViewSpace(St, p, o), newViewSpace(St))
            IN  /\ Shape(s2.root) = Shape(root)
                /\ s2.viewSpaces = viewSpaces
                /\ document(s2.views[p]) = document(views[p])

\* a close has just undone, by a merge, the split that directly preceded it
C5_Witness ==
    /\ last.op = "closeViewSpace"
    /\ last.new = last.pane
    /\ last.case = "mergeViewSpace"
    /\ err = "none"
    /\ views[activeViewSpace(St)] # <<>>

Depth(r, p) == Len(PathOf(r, p))

\* the new ViewSpace stands right after p in p's unchanged parent splitter
AddedAsSibling(p, new) ==
    /\ parentWidget(root', p) = parentWidget(root, p)
    /\ parentWidget(root', new) = parentWidget(root, p)
    /\ Last(PathOf(root', new)) = Last(PathOf(root, p)) + 1
    /\ Depth(root', p) = Depth(root, p)

\* p and the new ViewSpace are the two children of a new splitter with the asked
\* orientation that stands where p stood
NestedOneDeeper(p, new, orientation) ==
    /\ Depth(root', p) = Depth(root, p) + 1
    /\ parentWidget(root', p) = PathOf(root, p)
    /\ NodeAt(root', PathOf(root, p)) =
           QSplitter(orientation, <<ViewSpace(p), ViewSpace(new)>>)

\* C6, as claimed: splitViewSpace(p, O) adds the new ViewSpace as a sibling of p at
\* the same depth when p's parent has orientation O, and nests p one level deeper
\* whenever the parent has the other orientation.
C6_SplitByParentOrientation ==
    [][last'.op = "splitViewSpace" =>
          LET s == NodeAt(root, parentWidget(root, last'.pane))
          IN  /\ s.o = last'.orientation => AddedAsSibling(last'.pane, last'.new)
              /\ s.o # last'.orientation =>
                     NestedOneDeeper(last'.pane, last'.new, last'.orientation)]_vars

\* C6, amended: the sibling placement also applies to a single-child parent of the
\* other orientation, which takes the asked orientation; p is nested one level
\* deeper only under a parent of the other orientation with two or more children.
C6_SplitPlacement ==
    [][last'.op = "splitViewSpace" =>
          LET s == NodeAt(root, parentWidget(root, last'.pane))
          IN  /\ (s.o = last'.orientation \/ count(s) = 1) =>
                     /\ AddedAsSibling(last'.pane, last'.new)
                     /\ NodeAt(root', parentWidget(root, last'.pane)).o =
                            last'.orientation
              /\ (s.o # last'.orientation /\ count(s) >= 2) =>
                     NestedOneDeeper(last'.pane, last'.new, last'.orientation)]_vars

\* a split has just nested a ViewSpace below a splitter of the other orientation
C6_Witness ==
    /\ last.op = "splitViewSpace"
    /\ last.case = "nested"
    /\ Depth(root, last.pane) = 2
    /\ Depth(root, last.new) = 2

\* C7: from a single ViewSpace P0 showing A, split(P0, Vertical) gives the vertical
\* root [P0, P1] with P1 showing A and active; split(P1, Horizontal) gives the root
\* [P0, S1] with S1 the horizontal [P1, P2], P2 showing A and active; close(P1)
\* removes S1 and gives the vertical root [P0, P2] with P2 active.
C7_Scenario ==
    /\ last.scenario = 1 =>
           /\ root = QSplitter(Vertical, <<ViewSpace(last.pane), ViewSpace(last.new)>>)
           /\ document(views[last.new]) = "A"
           /\ activeViewSpace(St) = last.new
    /\ last.scenario = 2 =>
           /\ \E p0 \in Panes(St) \ {last.pane, last.new} :
                  root = QSplitter(Vertical,
                             <<ViewSpace(p0),
                               QSplitter(Horizontal, <<ViewSpace(last.pane),
                                                       ViewSpace(last.new)>>)>>)
           /\ document(views[last.new]) = "A"
           /\ activeViewSpace(St) = last.new
    /\ last.scenario = 3 =>
           /\ \E p0 \in Panes(St) \ {last.pane, last.new} :
                  root = QSplitter(Vertical, <<ViewSpace(p0), ViewSpace(last.new)>>)
           /\ last.case = "mergeViewSpace"
           /\ activeViewSpace(St) = last.new

\* the three calls of the scenario have been made in order
C7_Witness == last.scenario = 3 /\ err = "none"

\* a ViewSpace other than the active one shows doc
OtherShows(doc) ==
    \E p \in Panes(St) \ {activeViewSpace(St)} : document(views[p]) = doc

\* C8, as claimed: setCurrentDocument(B, findOpenView=True) with B not shown by the
\* active ViewSpace and shown by another one makes that one active and leaves the
\* view stack of the formerly active ViewSpace untouched.
C8_FoundLeavesActiveUntouched ==
    [][(/\ last'.op = "setCurrentDocument"
        /\ last'.findOpenView
        /\ document(views[activeViewSpace(St)]) # last'.doc
        /\ OtherShows(last'.doc)) =>
          /\ Last(viewSpaces') # activeViewSpace(St)
          /\ document(views[Last(viewSpaces')]) = last'.doc
          /\ views'[activeViewSpace(St)] = views[activeViewSpace(St)]]_vars

\* C8, amended: the formerly active ViewSpace keeps its view stack when it holds a
\* view; when it holds none it is given a view of B.
C8_FoundFillsOnlyEmptyActive ==
    [][(/\ last'.op = "setCurrentDocument"
        /\ last'.findOpenView
        /\ document(views[activeViewSpace(St)]) # last'.doc
        /\ OtherShows(last'.doc)) =>
          /\ Last(viewSpaces') # activeViewSpace(St)
          /\ document(views[Last(viewSpaces')]) = last'.doc
          /\ views'[activeViewSpace(St)] =
                 IF views[activeViewSpace(St)] = <<>> THEN <<last'.doc>>
                 ELSE views[activeViewSpace(St)]]_vars

\* a call has just switched to another ViewSpace; the one active before still
\* shows its own, different document
C8_Witness ==
    /\ last.op = "setCurrentDocument"
    /\ last.case = "found"
    /\ document(views[activeViewSpace(St)]) = last.doc
    /\ document(views[viewSpaces[Len(viewSpaces) - 1]]) \notin {None, last.doc}

\* C9: after setCurrentDocument(doc, findOpenView) the active ViewSpace shows doc,
\* every ViewSpace that showed no document before shows doc, and none is empty.
C9_CurrentDocumentShown ==
    [][last'.op = "setCurrentDocument" =>
          /\ document(views'[Last(viewSpaces')]) = last'.doc
          /\ \A p \in Panes(St) :
                 document(views[p]) = None => document(views'[p]) = last'.doc
          /\ \A p \in Range(Leaves(root')) : views'[p] # <<>>]_vars

\* a call has just switched to another ViewSpace and given the one active before,
\* which was empty, a view of the document
C9_Witness ==
    /\ last.op = "setCurrentDocument"
    /\ last.case = "found"
    /\ views[viewSpaces[Len(viewSpaces) - 1]] = <<last.doc>>

\* the view stacks with doc removed from every listed ViewSpace
Removed(doc) ==
    [p \in DOMAIN views |->
        IF p \in Range(viewSpaces) THEN removeDocument(views[p], doc) ELSE views[p]]

\* C10, as claimed: slotDocumentClosed(doc) removes doc everywhere; when the active
\* document did not change nothing else happens, otherwise every ViewSpace left
\* empty shows the new active document; no ViewSpace is empty unless all are.
C10_ClosedBackfillsOnChange ==
    [][last'.op = "slotDocumentClosed" =>
          LET active == activeViewSpace(St)
              before == document(views[active])
              after == document(views'[active])
          IN  /\ \A p \in Panes(St) : last'.doc \notin Range(views'[p])
              /\ after = before => views' = Removed(last'.doc)
              /\ after # before =>
                     \A p \in Panes(St) :
                         Removed(last'.doc)[p] = <<>> => document(views'[p]) = after
              /\ (\E p \in Panes(St) : views'[p] = <<>>) =>
                     (\A p \in Panes(St) : views'[p] = <<>>)]_vars

\* C10, amended: when doc was the active document nothing else happens; otherwise
\* every other ViewSpace left empty is given the unchanged active document, and no
\* ViewSpace is empty unless the active one is.
C10_ClosedBackfillsOnKeep ==
    [][last'.op = "slotDocumentClosed" =>
          LET active == activeViewSpace(St)
              before == document(views[active])
          IN  /\ \A p \in Panes(St) : last'.doc \notin Range(views'[p])
              /\ last'.doc = before => views' = Removed(last'.doc)
              /\ last'.doc # before =>
                     \A p \in DOMAIN views :
                         views'[p] =
                             IF /\ p \in Panes(St) \ {active}
                                /\ Removed(last'.doc)[p] = <<>>
                                /\ before # None
                             THEN <<before>>
                             ELSE Removed(last'.doc)[p]
              /\ (last'.doc # before /\ before # None) =>
                     (\A p \in Panes(St) : views'[p] # <<>>)]_vars

\* the active document has just been closed: another ViewSpace is left empty
\* beside an active one that shows its next document
C10_Witness ==
    /\ last.op = "slotDocumentClosed"
    /\ views[activeViewSpace(St)] # <<>>
    /\ \E p \in Panes(St) : views[p] = <<>>

\* the manager's active view: the ViewSpace it lives in and its document
ActiveView == <<activeViewSpace(St), activeView(views[activeViewSpace(St)])>>

\* C11: whenever setCurrentDocument changes the manager's active view, by loading
\* the document into the active ViewSpace or by switching to another ViewSpace,
\* viewChanged is emitted during the call, last with the new active view.
C11_ActiveViewChangeEmits ==
    [][(last'.op = "setCurrentDocument" /\ ActiveView' # ActiveView)
           => (viewChanged' # <<>> /\ Last(viewChanged') = ActiveView')]_vars

\* C12 as claimed: splitViewSpace of a ViewSpace that is not the active one leaves
\* the new ViewSpace second-to-last in the recency list and the active one unchanged.
C12_SplitRegistersSecondToLast ==
    [][(last'.op = "splitViewSpace" /\ last'.pane # Last(viewSpaces))
           => /\ viewSpaces'[Len(viewSpaces') - 1] = last'.new
              /\ Last(viewSpaces') = Last(viewSpaces)]_vars

\* C12: splitViewSpace registers the new ViewSpace at the front of the recency list
\* (least recently active) and keeps the order of the others: after splitting a
\* ViewSpace that is not active, or the active one while it has no view (the call
\* then fails), the new one is the first entry and the active one is unchanged;
\* after splitting the active one showing a document the new one has the focus and
\* is the last entry, the others before it in their order.
C12_SplitRegistersFirst ==
    [][last'.op = "splitViewSpace"
           => IF last'.pane = Last(viewSpaces) /\ views[last'.pane] # <<>>
              THEN viewSpaces' = Append(viewSpaces, last'.new)
              ELSE /\ viewSpaces' = <<last'.new>> \o viewSpaces
                   /\ Last(viewSpaces') = Last(viewSpaces)]_vars

\* a ViewSpace that is not active was split while two existed
C12_Witness ==
    /\ last.op = "splitViewSpace"
    /\ Len(viewSpaces) = 3
    /\ viewSpaces[1] = last.new
    /\ Last(viewSpaces) \notin {last.pane, last.new}

\* C13: closeViewSpace of the active ViewSpace while two or more exist: at every
\* step of the call the last entry of the recency list is a ViewSpace still in the
\* widget tree and the only one with an enabled status bar; afterwards the
\* ViewSpace that was second-to-last is the active one and the remaining ones keep
\* their order.
C13_ActivateBeforeDetach ==
    [][(last'.op = "closeViewSpace" /\ last'.pane = Last(viewSpaces)
            /\ Len(viewSpaces) >= 2)
           => \E steps \in {closeSteps(St, last'.pane)} :
                  /\ \A step \in Range(steps) :
                         /\ Last(step.viewSpaces) \in Panes(step)
                         /\ step.statusEnabled = {Last(step.viewSpaces)}
                  /\ root' = Last(steps).root
                  /\ viewSpaces' = Last(steps).viewSpaces
                  /\ last'.pane \notin Range(Leaves(root'))
                  /\ Last(viewSpaces') = viewSpaces[Len(viewSpaces) - 1]
                  /\ viewSpaces' = Remove(viewSpaces, last'.pane)]_vars

\* the active one of three ViewSpaces was closed
C13_Witness ==
    /\ last.op = "closeViewSpace"
    /\ viewChanged # <<>>
    /\ Len(viewSpaces) = 2
    /\ last.pane \notin Panes(St)

\* C14: in each case of closeViewSpace that closes the ViewSpace (its parent has
\* three or more children; the two-child root with a ViewSpace or a QSplitter as
\* the other child; a two-child inner QSplitter with a ViewSpace or a QSplitter as
\* the other child) the ViewSpaces of the tree, left to right, are afterwards the
\* ones before without the closed one, in the same order.
C14_CloseKeepsLeafOrder ==
    [][(last'.op = "closeViewSpace"
            /\ last'.case \in {"remove", "rootViewSpace", "rootSplitter",
                               "mergeViewSpace", "mergeSplitter"})
           => Leaves(root') = Remove(Leaves(root), last'.pane)]_vars

\* a ViewSpace was closed whose sibling in a two-child inner QSplitter was a
\* QSplitter: the sibling's children were spliced into the parent
C14_Witness ==
    /\ last.op = "closeViewSpace"
    /\ last.case = "mergeSplitter"
    /\ Len(Leaves(root)) = 3
    /\ last.pane \notin Panes(St)

\* C15: in every reachable state the slots of every ViewSpace of the tree are
\* connected to its active view, once, and to no other view; a ViewSpace without
\* views and a closed ViewSpace have no connected view; no disconnectView was ever
\* called for a view that was not connected.
C15_SubscriptionDiscipline ==
    /\ \A p \in Panes(St) :
           connected[p] = IF views[p] = <<>> THEN <<>> ELSE <<activeView(views[p])>>
    /\ \A p \in ViewSpaceIds \ Panes(St) : connected[p] = <<>>
    /\ ~unmatched

\* a ViewSpace was closed while the remaining one holds an inactive view next to
\* its connected active view
C15_Witness ==
    /\ last.op = "closeViewSpace"
    /\ last.pane \notin Panes(St)
    /\ \E p \in Panes(St) : /\ Len(views[p]) = 2
                           /\ connected[p] = <<activeView(views[p])>>

\* no two views of the stack show the same document
OneViewPerDocument(vs) == \A i, j \in DOMAIN vs : vs[i] = vs[j] => i = j

\* the views of the stack that do not show doc, in their order
Others(vs, doc) == LET Other(d) == d # doc IN SelectSeq(vs, Other)

\* C16: after any sequence of showDocument and removeDocument calls no two views
\* of a ViewSpace show the same document; showDocument(doc) changes nothing when
\* doc is the active document, otherwise the view of doc ends up last, the other
\* views keep their order, and a view is created exactly when none showed doc.
C16_ShowDocumentPromotes ==
    [][LET space == last'.pane
           doc == last'.doc
       IN  /\ \A p \in Panes(St) : OneViewPerDocument(views'[p])
           /\ last'.op = "showDocument" =>
                  IF doc = document(views[space])
                  THEN /\ views' = views
                       /\ connected' = connected
                       /\ created' = {}
                  ELSE /\ Last(views'[space]) = doc
                       /\ Front(views'[space]) = Others(views[space], doc)
                       /\ created' = IF doc \in Range(views[space])
                                     THEN {} ELSE {<<space, doc>>}]_vars

\* a view below the active one was promoted, two other views kept their order
C16_Witness ==
    /\ last.op = "showDocument"
    /\ last.case = "reuse"
    /\ Len(views[last.pane]) >= 3
    /\ Last(views[last.pane]) = last.doc

\* C17: removeDocument(doc) leaves the stack and the connections unchanged when no
\* view of the ViewSpace shows doc; otherwise exactly the view showing doc is
\* removed and the others keep their order; when the removed view was the active
\* one the new last view, if any, is the connected one, and when it was not the
\* connections are unchanged.
C17_RemoveDocument ==
    [][last'.op = "removeDocument" =>
           LET space == last'.pane
               doc == last'.doc
               vs == views[space]
           IN  /\ ~unmatched'
               /\ \A p \in ViewSpaceIds \ {space} :
                      views'[p] = views[p] /\ connected'[p] = connected[p]
               /\ IF doc \notin Range(vs)
                  THEN views'[space] = vs /\ connected'[space] = connected[space]
                  ELSE /\ views'[space] = Others(vs, doc)
                       /\ Len(views'[space]) = Len(vs) - 1
                       /\ connected'[space] =
                              IF doc # Last(vs) THEN connected[space]
                              ELSE IF views'[space] = <<>> THEN <<>>
                              ELSE <<Last(views'[space])>>]_vars

\* the active view was removed and two views remain, the last of them connected
C17_Witness ==
    /\ last.op = "removeDocument"
    /\ last.case = "active"
    /\ Len(views[last.pane]) >= 2
    /\ connected[last.pane] = <<Last(views[last.pane])>>

\* the positions in the recency list, the active one excluded, of the ViewSpaces
\* whose active document is doc
OthersShowing(doc) ==
    {i \in 1..(Len(viewSpaces) - 1) : document(views[viewSpaces[i]]) = doc}

\* C18: setCurrentDocument(doc, findOpenView) while the active ViewSpace does not
\* show doc: with findOpenView and other ViewSpaces showing doc the most recently
\* active of them becomes the active one and the former active one keeps its
\* document; without findOpenView the recency list is unchanged, nothing is
\* activated and doc is shown in the active ViewSpace.
C18_FindOpenView ==
    [][(last'.op = "setCurrentDocument"
            /\ last'.doc # document(views[Last(viewSpaces)]))
           => /\ (last'.findOpenView /\ OthersShowing(last'.doc) # {}) =>
                     /\ \E i \in OthersShowing(last'.doc) :
                            /\ \A j \in OthersShowing(last'.doc) : j <= i
                            /\ Last(viewSpaces') = viewSpaces[i]
                     /\ views[Last(viewSpaces)] # <<>> =>
                            views'[Last(viewSpaces)] = views[Last(viewSpaces)]
              /\ ~last'.findOpenView =>
                     /\ viewSpaces' = viewSpaces
                     /\ viewChanged' = <<>>
                     /\ document(views'[Last(viewSpaces)]) = last'.doc]_vars

\* of three ViewSpaces two showed the document and the active one another: one
\* of the two was activated
C18_Witness ==
    /\ last.op = "setCurrentDocument"
    /\ last.findOpenView
    /\ last.case = "found"
    /\ Len(viewSpaces) = 3
    /\ Cardinality({p \in Panes(St) : document(views[p]) = last.doc}) = 2
    /\ \E p \in Panes(St) : views[p] # <<>> /\ document(views[p]) # last.doc

RECURSIVE Alternates(_)
\* every QSplitter below node has the orientation its parent does not have
Alternates(node) ==
    \A k \in DOMAIN node.ch :
        isQSplitter(node.ch[k]) => node.ch[k].o # node.o /\ Alternates(node.ch[k])

\* C19: after any sequence of splits and closes every QSplitter below the root
\* has the orientation opposite to its parent's, and a close that moves the
\* children of a sibling QSplitter into the grandparent (or the root) puts them
\* into a splitter that has the sibling's orientation.
C19_OrientationsAlternate ==
    [][/\ Alternates(root')
       /\ (last'.op = "closeViewSpace"
               /\ last'.case \in {"rootSplitter", "mergeSplitter"}) =>
              LET path == PathOf(root, last'.pane)
                  other == NodeAt(root, Front(path)).ch[3 - Last(path)]
                  target == IF last'.case = "rootSplitter" THEN <<>>
                            ELSE Front(Front(path))
              IN  /\ NodeAt(root', target).o = other.o
                  /\ last'.case = "mergeSplitter" => NodeAt(root, target).o = other.o]_vars

\* a QSplitter sits inside a QSplitter inside the root
C19_Witness ==
    /\ \E p \in Panes(St) : Depth(root, p) = 3
    /\ Alternates(root)

\* C20: after every operation (splitViewSpace, closeViewSpace, setActiveViewSpace,
\* setCurrentDocument, slotDocumentClosed) the recency list holds no ViewSpace
\* twice and holds exactly the ViewSpaces of the widget tree.
C20_RecencyListsLeaves ==
    /\ \A i, j \in DOMAIN viewSpaces : viewSpaces[i] = viewSpaces[j] => i = j
    /\ Range(viewSpaces) = Range(Leaves(root))
    /\ Len(viewSpaces) = Len(Leaves(root))

\* one of three ViewSpaces was closed: it is not listed, the two others are
C20_Witness ==
    /\ last.op = "closeViewSpace"
    /\ last.pane \notin Range(viewSpaces)
    /\ Cardinality(Range(viewSpaces)) = 2
    /\ Len(Leaves(root)) = 2

====
